---- MODULE Spec2Model ----
(***************************************************************************)
(* Model of rmpp-stabilizer (src/src/stabilizer.cpp): the LD_PRELOAD open  *)
(* and read hooks, the sample assembler, the stroke state and the four     *)
(* smoothing filters.                                                      *)
(*                                                                         *)
(* Numbers.  The C++ code computes in double.  A double is modelled as a   *)
(* fixed-point number: the integer n stands for n / FP.  Every arithmetic  *)
(* expression is evaluated exactly and stored truncated toward zero on     *)
(* that grid.  Raw device values are C ints and are kept as integers.      *)
(* Strength is kept in thousandths, cut-off frequencies in mHz, times in   *)
(* microseconds.                                                           *)
(***************************************************************************)
EXTENDS Integers, Sequences, FiniteSets, TLC

(* ---------------- program constants ---------------- *)
MAX_HISTORY == 64
EV_SYN == 0
EV_KEY == 1
EV_ABS == 3
SYN_REPORT == 0
ABS_X == 0
ABS_Y == 1
ABS_PRESSURE == 24
ABS_TILT_X == 26
ABS_TILT_Y == 27
BTN_TOOL_PEN == 320
BTN_TOUCH == 330
\* the pen-lift pressure threshold of the read hook
LIFT_THRESHOLD == 50
\* sizeof(struct input_event) on the 64-bit target
EV_SIZE == 24
\* the value g_pen_fd starts with
NO_FD == -1

(* ---------------- resolution of the number model ---------------- *)
\* grid steps per unit of a modelled double
FP == 10
\* strength is kept in 1/MILLI
MILLI == 1000

(* ---------------- arithmetic helpers ---------------- *)
Abs(a) == IF a < 0 THEN -a ELSE a

\* C integer division and double -> grid conversion: truncation toward zero
TruncDiv(a, b) == IF a >= 0 THEN a \div b ELSE -((-a) \div b)

Min(a, b) == IF a < b THEN a ELSE b

RECURSIVE SqrtSearch(_, _, _)
SqrtSearch(n, lo, hi) ==
    IF hi - lo <= 1 THEN lo
    ELSE LET mid == (lo + hi) \div 2
         IN  IF mid * mid <= n THEN SqrtSearch(n, mid, hi)
                               ELSE SqrtSearch(n, lo, mid)

\* sqrt() of a non-negative number, truncated to an integer
ISqrt(n) == SqrtSearch(n, 0, 46341)

\* sqrt(dx*dx + dy*dy) of two grid numbers, as a grid number
Hypot(dx, dy) == ISqrt(dx * dx + dy * dy)

\* int -> double
ToDouble(v) == v * FP

\* the double that is not a number, which atof() returns for the token nan;
\* every comparison with it is false and every arithmetic result it enters
\* is again NaN
NaN == -2147483647

IsNaN(a) == a = NaN

\* a < b and a > b on doubles
Less(a, b) == ~IsNaN(a) /\ ~IsNaN(b) /\ a < b

Greater(a, b) == ~IsNaN(a) /\ ~IsNaN(b) /\ a > b

\* what the conversion (int)d of a NaN can yield, the behaviour being
\* undefined: 0 on the aarch64 target, INT_MIN on x86-64
IntOfNaN == {0, -2147483647 - 1}

\* the write-back conversion (int)(f + 0.5)
RoundToInt(f) == TruncDiv(2 * f + FP, 2 * FP)

\* the same conversion where f may be NaN: ub is what the conversion of a
\* NaN yields
ToInt(f, ub) == IF IsNaN(f) THEN ub ELSE RoundToInt(f)

(* ---------------- Config ---------------- *)
Algorithms == {"moving_avg", "gaussian", "string_pull", "one_euro", "off"}

\* struct Config with its default member initialisers
DefaultConfig ==
    [ algorithm          |-> "string_pull",
      strength           |-> MILLI \div 2,
      pressure_smoothing |-> FALSE,
      tilt_smoothing     |-> FALSE,
      moving_avg_window  |-> 8,
      gaussian_sigma     |-> 30 * FP,
      string_length      |-> 25 * FP,
      string_finish      |-> TRUE,
      one_euro_mincutoff |-> MILLI,
      one_euro_beta      |-> 7000,
      one_euro_dcutoff   |-> MILLI ]

\* round-to-nearest of a non-negative number of 1/MILLI
RoundMilli(a) == (2 * a + MILLI) \div (2 * MILLI)

\* a derive_params() that rounds the window to the nearest integer
derive_params_round(c, ub) ==
    LET s == c.strength
    IN  IF IsNaN(s)
        THEN [c EXCEPT !.moving_avg_window  = 4 + ub,
                       !.gaussian_sigma     = NaN,
                       !.string_length      = NaN,
                       !.one_euro_mincutoff = NaN,
                       !.one_euro_beta      = NaN]
        ELSE [c EXCEPT !.moving_avg_window  = 4 + RoundMilli(s * 28),
                       !.gaussian_sigma     = 50 * FP + TruncDiv(s * 450 * FP, MILLI),
                       !.string_length      = 100 * FP + TruncDiv(s * 900 * FP, MILLI),
                       !.one_euro_mincutoff = 1500 - TruncDiv(s * 1300, MILLI),
                       !.one_euro_beta      = 1000 + s * 10]

\* derive_params(): strength in 1/MILLI, lengths on the grid, cut-offs in
\* mHz, beta in millionths; ub is what (int)(s * 28) yields when s is NaN
derive_params(c, ub) ==
    LET s == c.strength
    IN  IF IsNaN(s)
        THEN [c EXCEPT !.moving_avg_window  = 4 + ub,
                       !.gaussian_sigma     = NaN,
                       !.string_length      = NaN,
                       !.one_euro_mincutoff = NaN,
                       !.one_euro_beta      = NaN]
        ELSE [c EXCEPT !.moving_avg_window  = 4 + TruncDiv(s * 28, MILLI),
                       !.gaussian_sigma     = 50 * FP + TruncDiv(s * 450 * FP, MILLI),
                       !.string_length      = 100 * FP + TruncDiv(s * 900 * FP, MILLI),
                       !.one_euro_mincutoff = 1500 - TruncDiv(s * 1300, MILLI),
                       !.one_euro_beta      = 1000 + s * 10]

\* atof() on the value tokens the configuration files of the model use; a
\* token that is no number converts to 0
Atof(val) ==
    CASE val = "0"    -> 0
      [] val = "0.02" -> 20
      [] val = "0.5"  -> 500
      [] val = "1"    -> 1000
      [] val = "2.5"  -> 2500
      [] val = "-1"   -> -1000
      [] val = "nan"  -> NaN
      [] OTHER        -> 0

\* the body of the fgets loop of load_config(): one key=value line
ConfigLine(c, line) ==
    IF line.key = "algorithm" THEN
        IF line.val = "off" THEN [c EXCEPT !.algorithm = "off"]
        ELSE IF line.val = "moving_avg" THEN [c EXCEPT !.algorithm = "moving_avg"]
        ELSE IF line.val = "gaussian" THEN [c EXCEPT !.algorithm = "gaussian"]
        ELSE IF line.val = "string_pull" THEN [c EXCEPT !.algorithm = "string_pull"]
        ELSE IF line.val = "one_euro" THEN [c EXCEPT !.algorithm = "one_euro"]
        ELSE c
    ELSE IF line.key = "strength" THEN
        LET a == Atof(line.val)
            lo == IF Less(a, 0) THEN 0 ELSE a
            hi == IF Greater(lo, MILLI) THEN MILLI ELSE lo
        IN  [c EXCEPT !.strength = hi]
    ELSE IF line.key = "pressure_smoothing" THEN
        [c EXCEPT !.pressure_smoothing = (line.val = "true")]
    ELSE IF line.key = "tilt_smoothing" THEN
        [c EXCEPT !.tilt_smoothing = (line.val = "true")]
    ELSE c

RECURSIVE ConfigLines(_, _)
ConfigLines(c, lines) ==
    IF lines = << >> THEN c
    ELSE ConfigLines(ConfigLine(c, Head(lines)), Tail(lines))

\* the configuration file as fopen() finds it: absent, or its key=value lines
NoFile == [exists |-> FALSE, lines |-> << >>]

File(lines) == [exists |-> TRUE, lines |-> lines]

\* load_config()
load_config(c, file, ub) ==
    IF ~file.exists THEN derive_params(c, ub)
    ELSE derive_params(ConfigLines(derive_params(c, ub), file.lines), ub)

(* ---------------- FilterState ---------------- *)
ZeroPoint == [x |-> 0, y |-> 0, pressure |-> 0, tilt_x |-> 0, tilt_y |-> 0, distance |-> 0]

\* struct FilterState with its default member initialisers.  Point
\* history[MAX_HISTORY] is kept as a function on the slots written so far;
\* every other slot holds the zero-initialised Point it was constructed with.
InitState ==
    [ history      |-> << >>,
      hist_count   |-> 0,
      hist_head    |-> 0,
      string_x     |-> 0,
      string_y     |-> 0,
      string_init  |-> FALSE,
      oe_x         |-> 0,
      oe_y         |-> 0,
      oe_dx        |-> 0,
      oe_dy        |-> 0,
      oe_last_time |-> 0,
      oe_init      |-> FALSE,
      raw_x        |-> 0,
      raw_y        |-> 0,
      raw_pressure |-> 0,
      raw_tilt_x   |-> 0,
      raw_tilt_y   |-> 0,
      has_x        |-> FALSE,
      has_y        |-> FALSE,
      prev_x       |-> 0,
      prev_y       |-> 0,
      prev_init    |-> FALSE ]

\* s.history[idx]
HistAt(s, idx) == IF idx \in DOMAIN s.history THEN s.history[idx] ELSE ZeroPoint

\* a history_push() that measures the distance from the slot at hist_head
\* whether or not the history holds a sample
history_push_always_measures(s, x, y, pressure, tilt_x, tilt_y) ==
    LET idx  == (s.hist_head + 1) % MAX_HISTORY
        prev == HistAt(s, s.hist_head)
        dist == Hypot(x - prev.x, y - prev.y)
        p    == [x |-> x, y |-> y, pressure |-> pressure,
                 tilt_x |-> tilt_x, tilt_y |-> tilt_y, distance |-> dist]
    IN  [s EXCEPT !.history    = [k \in DOMAIN s.history \cup {idx} |->
                                         IF k = idx THEN p ELSE s.history[k]],
                  !.hist_head  = idx,
                  !.hist_count = IF s.hist_count < MAX_HISTORY
                                 THEN s.hist_count + 1 ELSE s.hist_count]

\* history_push()
history_push(s, x, y, pressure, tilt_x, tilt_y) ==
    LET idx  == (s.hist_head + 1) % MAX_HISTORY
        prev == HistAt(s, s.hist_head)
        dist == IF s.hist_count > 0 THEN Hypot(x - prev.x, y - prev.y) ELSE 0
        p    == [x |-> x, y |-> y, pressure |-> pressure,
                 tilt_x |-> tilt_x, tilt_y |-> tilt_y, distance |-> dist]
    IN  [s EXCEPT !.history    = [k \in DOMAIN s.history \cup {idx} |->
                                         IF k = idx THEN p ELSE s.history[k]],
                  !.hist_head  = idx,
                  !.hist_count = IF s.hist_count < MAX_HISTORY
                                 THEN s.hist_count + 1 ELSE s.hist_count]

\* a history_clear() that leaves the string anchor initialised
history_clear_keeps_anchor(s) ==
    [s EXCEPT !.hist_count  = 0,
              !.hist_head   = 0,
              !.oe_init     = FALSE,
              !.prev_init   = FALSE,
              !.has_x       = FALSE,
              !.has_y       = FALSE]

\* history_clear()
history_clear(s) ==
    [s EXCEPT !.hist_count  = 0,
              !.hist_head   = 0,
              !.string_init = FALSE,
              !.oe_init     = FALSE,
              !.prev_init   = FALSE,
              !.has_x       = FALSE,
              !.has_y       = FALSE]

(* ---------------- Algorithm: Gaussian-weighted average ---------------- *)
\* weights are kept in units of gauss_norm / W_UNIT
W_UNIT == 1000
\* the kernel is tabulated in steps of sigma / EXP_STEPS
EXP_STEPS == 4

\* W_UNIT * exp(-q*q / (2 * EXP_STEPS^2)), q = 0, 1, 2, ...: the values exp()
\* returns, rounded to the weight grid
ExpTable == <<1000, 969, 882, 755, 607, 458, 325, 216, 135, 80, 44, 23, 11, 5, 2, 1>>

\* w = gauss_norm * exp(-cum_dist * cum_dist / (2.0 * sigma2))
GaussWeight(cum_dist, sigma) ==
    LET q == TruncDiv(cum_dist * EXP_STEPS, sigma)
    IN  IF q < Len(ExpTable) THEN ExpTable[q + 1] ELSE 0

\* the for loop of gaussian_smooth(): i counts the slots visited, idx is the
\* slot, acc the running sums
RECURSIVE GaussWalk(_, _, _, _, _)
GaussWalk(s, sigma, i, idx, acc) ==
    IF i >= s.hist_count THEN acc
    ELSE LET p   == HistAt(s, idx)
             cum == acc.cum_dist + p.distance
             w   == GaussWeight(cum, sigma)
         IN  IF i > 0 /\ acc.sum_w > 0 /\ w * 1000 < acc.sum_w
             THEN acc
             ELSE GaussWalk(s, sigma, i + 1, (idx - 1 + MAX_HISTORY) % MAX_HISTORY,
                            [cum_dist |-> cum,
                             sum_x    |-> acc.sum_x + w * p.x,
                             sum_y    |-> acc.sum_y + w * p.y,
                             sum_p    |-> acc.sum_p + w * p.pressure,
                             sum_w    |-> acc.sum_w + w])

\* gaussian_smooth(): the filtered x, y and pressure
gaussian_smooth(s, c, raw_x, raw_y, raw_p) ==
    IF (~IsNaN(c.gaussian_sigma) /\ c.gaussian_sigma <= 0) \/ s.hist_count < 2
    THEN [x |-> raw_x, y |-> raw_y, p |-> raw_p]
    ELSE IF IsNaN(c.gaussian_sigma)
    \* every weight is NaN, the loop never breaks, sum_w > 0 is false
    THEN [x |-> raw_x, y |-> raw_y, p |-> raw_p]
    ELSE LET acc == GaussWalk(s, c.gaussian_sigma, 0, s.hist_head,
                              [cum_dist |-> 0, sum_x |-> 0, sum_y |-> 0,
                               sum_p |-> 0, sum_w |-> 0])
         IN  IF acc.sum_w > 0
             THEN [x |-> TruncDiv(acc.sum_x, acc.sum_w),
                   y |-> TruncDiv(acc.sum_y, acc.sum_w),
                   p |-> IF c.pressure_smoothing
                         THEN TruncDiv(acc.sum_p, acc.sum_w) ELSE raw_p]
             ELSE [x |-> raw_x, y |-> raw_y, p |-> raw_p]

(* ---------------- Algorithm: string pull ---------------- *)
\* a string pull that moves the anchor along x only
string_pull_filter_x_only(s, c, raw_x, raw_y) ==
    LET L    == c.string_length
        s1   == IF ~s.string_init
                THEN [s EXCEPT !.string_x = raw_x, !.string_y = raw_y,
                               !.string_init = TRUE]
                ELSE s
        dx   == raw_x - s1.string_x
        dy   == raw_y - s1.string_y
        dist == Hypot(dx, dy)
    IN  IF Greater(dist, L)
        THEN [s1 EXCEPT !.string_x = s1.string_x + TruncDiv(dx * (dist - L), dist)]
        ELSE s1

\* a string pull that moves a taut anchor half of the way it should
string_pull_filter_halfway(s, c, raw_x, raw_y) ==
    LET L    == c.string_length
        s1   == IF ~s.string_init
                THEN [s EXCEPT !.string_x = raw_x, !.string_y = raw_y,
                               !.string_init = TRUE]
                ELSE s
        dx   == raw_x - s1.string_x
        dy   == raw_y - s1.string_y
        dist == Hypot(dx, dy)
    IN  IF Greater(dist, L)
        THEN [s1 EXCEPT !.string_x = s1.string_x + TruncDiv(dx * (dist - L), 2 * dist),
                        !.string_y = s1.string_y + TruncDiv(dy * (dist - L), 2 * dist)]
        ELSE s1

\* a string pull that moves a taut anchor all the way to the pen
string_pull_filter_snap(s, c, raw_x, raw_y) ==
    LET L    == c.string_length
        s1   == IF ~s.string_init
                THEN [s EXCEPT !.string_x = raw_x, !.string_y = raw_y,
                               !.string_init = TRUE]
                ELSE s
        dx   == raw_x - s1.string_x
        dy   == raw_y - s1.string_y
        dist == Hypot(dx, dy)
    IN  IF Greater(dist, L)
        THEN [s1 EXCEPT !.string_x = raw_x, !.string_y = raw_y]
        ELSE s1

\* string_pull_filter(): the new state; the output is its string_x, string_y
string_pull_filter(s, c, raw_x, raw_y) ==
    LET L    == c.string_length
        s1   == IF ~s.string_init
                THEN [s EXCEPT !.string_x = raw_x, !.string_y = raw_y,
                               !.string_init = TRUE]
                ELSE s
        dx   == raw_x - s1.string_x
        dy   == raw_y - s1.string_y
        dist == Hypot(dx, dy)
    IN  IF Greater(dist, L)
        THEN [s1 EXCEPT !.string_x = s1.string_x + TruncDiv(dx * (dist - L), dist),
                        !.string_y = s1.string_y + TruncDiv(dy * (dist - L), dist)]
        ELSE s1

(* ---------------- Algorithm: 1 euro filter ---------------- *)
\* alpha is kept in 1/A_UNIT
A_UNIT == 10000
\* 1 / (2 * M_PI) seconds, in microseconds times mHz
TAU_UNIT == 159154943
\* the dt <= 0 fallback 0.002 s, in microseconds
DT_FALLBACK == 2000
\* microseconds per second: ts = tv_sec + tv_usec / 1e6
USEC == 1000000

\* an alpha that weighs the previous value where oe_alpha() weighs the new
oe_alpha_of_prev(cutoff, dt) ==
    LET tau == TruncDiv(TAU_UNIT, cutoff)
    IN  TruncDiv(tau * A_UNIT, dt + tau)

\* oe_alpha(): cutoff in mHz, dt in microseconds
oe_alpha(cutoff, dt) ==
    LET tau == TruncDiv(TAU_UNIT, cutoff)
    IN  TruncDiv(dt * A_UNIT, dt + tau)

\* oe_lowpass()
oe_lowpass(x, prev, a) == TruncDiv(a * x + (A_UNIT - a) * prev, A_UNIT)

\* dt = timestamp - s.oe_last_time; if (dt <= 0) dt = 0.002
OeDt(s, timestamp) ==
    IF timestamp - s.oe_last_time <= 0 THEN DT_FALLBACK
    ELSE timestamp - s.oe_last_time

\* the new derivative estimate oe_lowpass((raw - prev) / dt, dprev, ad)
OeDeriv(raw, prev, dprev, ad, dt) ==
    IF IsNaN(prev) \/ IsNaN(dprev) THEN NaN
    ELSE oe_lowpass(TruncDiv((raw - prev) * MILLI, dt), dprev, ad)

\* cutoff = c.one_euro_mincutoff + c.one_euro_beta * speed, the speed being
\* that of the derivatives ndx, ndy
OeCutoff(c, ndx, ndy) ==
    IF IsNaN(c.one_euro_mincutoff) \/ IsNaN(c.one_euro_beta) \/ IsNaN(ndx) \/ IsNaN(ndy)
    THEN NaN
    ELSE c.one_euro_mincutoff + TruncDiv(c.one_euro_beta * Hypot(ndx, ndy), FP)

\* oe_lowpass(raw, prev, oe_alpha(cutoff, dt))
OeSmooth(raw, prev, cutoff, dt) ==
    IF IsNaN(cutoff) \/ IsNaN(prev) THEN NaN
    ELSE oe_lowpass(raw, prev, oe_alpha(cutoff, dt))

\* one_euro_filter() once the state is seeded, dt and the derivatives known
OeStep(s, c, raw_x, raw_y, timestamp, dt, ndx, ndy) ==
    [s EXCEPT !.oe_last_time = timestamp,
              !.oe_dx = ndx, !.oe_dy = ndy,
              !.oe_x = OeSmooth(raw_x, s.oe_x, OeCutoff(c, ndx, ndy), dt),
              !.oe_y = OeSmooth(raw_y, s.oe_y, OeCutoff(c, ndx, ndy), dt)]

\* one_euro_filter(): the new state; the output is its oe_x, oe_y.  The
\* derivatives oe_dx, oe_dy are kept in grid steps per millisecond.
one_euro_filter(s, c, raw_x, raw_y, timestamp) ==
    IF ~s.oe_init
    THEN [s EXCEPT !.oe_x = raw_x, !.oe_y = raw_y, !.oe_dx = 0, !.oe_dy = 0,
                   !.oe_last_time = timestamp, !.oe_init = TRUE]
    ELSE OeStep(s, c, raw_x, raw_y, timestamp, OeDt(s, timestamp),
                OeDeriv(raw_x, s.oe_x, s.oe_dx,
                        oe_alpha(c.one_euro_dcutoff, OeDt(s, timestamp)),
                        OeDt(s, timestamp)),
                OeDeriv(raw_y, s.oe_y, s.oe_dy,
                        oe_alpha(c.one_euro_dcutoff, OeDt(s, timestamp)),
                        OeDt(s, timestamp)))

(* ---------------- Algorithm: simple moving average ---------------- *)
\* a walk through the history that steps forward, to the older slots of a
\* full ring
RECURSIVE SumBack_forward(_, _, _)
SumBack_forward(s, idx, n) ==
    IF n = 0 THEN [sx |-> 0, sy |-> 0]
    ELSE LET rest == SumBack_forward(s, (idx + 1) % MAX_HISTORY, n - 1)
         IN  [sx |-> HistAt(s, idx).x + rest.sx, sy |-> HistAt(s, idx).y + rest.sy]

\* the for loop of moving_avg_filter(): the sums of x and y over n slots
\* walking backward from idx
RECURSIVE SumBack(_, _, _)
SumBack(s, idx, n) ==
    IF n = 0 THEN [sx |-> 0, sy |-> 0]
    ELSE LET rest == SumBack(s, (idx - 1 + MAX_HISTORY) % MAX_HISTORY, n - 1)
         IN  [sx |-> HistAt(s, idx).x + rest.sx, sy |-> HistAt(s, idx).y + rest.sy]

\* a moving average that divides by the window while the history is shorter
moving_avg_filter_full_window(s, c, raw_x, raw_y) ==
    LET window == IF c.moving_avg_window < 1 THEN 1 ELSE c.moving_avg_window
        n      == IF s.hist_count < window THEN s.hist_count ELSE window
        sum    == SumBack(s, s.hist_head, n)
    IN  IF n = 0 THEN [x |-> raw_x, y |-> raw_y]
        ELSE [x |-> TruncDiv(sum.sx, window), y |-> TruncDiv(sum.sy, window)]

\* moving_avg_filter(): the filtered x and y
moving_avg_filter(s, c, raw_x, raw_y) ==
    LET window == IF c.moving_avg_window < 1 THEN 1 ELSE c.moving_avg_window
        n      == IF s.hist_count < window THEN s.hist_count ELSE window
        sum    == SumBack(s, s.hist_head, n)
    IN  IF n = 0 THEN [x |-> raw_x, y |-> raw_y]
        ELSE [x |-> TruncDiv(sum.sx, n), y |-> TruncDiv(sum.sy, n)]

(* ---------------- Master filter dispatch ---------------- *)
\* apply_filter(): [s: the new state, x, y, p: the filtered sample]
apply_filter(s, c, raw_x, raw_y, raw_p, timestamp) ==
    IF c.algorithm = "moving_avg" THEN
        LET o == moving_avg_filter(s, c, raw_x, raw_y)
        IN  [s |-> s, x |-> o.x, y |-> o.y, p |-> raw_p]
    ELSE IF c.algorithm = "gaussian" THEN
        LET o == gaussian_smooth(s, c, raw_x, raw_y, raw_p)
        IN  [s |-> s, x |-> o.x, y |-> o.y, p |-> o.p]
    ELSE IF c.algorithm = "string_pull" THEN
        LET t == string_pull_filter(s, c, raw_x, raw_y)
        IN  [s |-> t, x |-> t.string_x, y |-> t.string_y, p |-> raw_p]
    ELSE IF c.algorithm = "one_euro" THEN
        LET t == one_euro_filter(s, c, raw_x, raw_y, timestamp)
        IN  [s |-> t, x |-> t.oe_x, y |-> t.oe_y, p |-> raw_p]
    ELSE [s |-> s, x |-> raw_x, y |-> raw_y, p |-> raw_p]

(* ---------------- the read hook's event loop ---------------- *)
\* struct input_event
Event(type, code, value, sec, usec) ==
    [type |-> type, code |-> code, value |-> value,
     time |-> [tv_sec |-> sec, tv_usec |-> usec]]

IsSynReport(ev) == ev.type = EV_SYN /\ ev.code = SYN_REPORT

\* the two pen-lift tests at the end of the loop body
IsPressureLift(ev) ==
    ev.type = EV_ABS /\ ev.code = ABS_PRESSURE /\ ev.value < LIFT_THRESHOLD

IsToolRelease(ev) ==
    ev.type = EV_KEY /\ ev.code = BTN_TOOL_PEN /\ ev.value = 0

\* an accumulation whose switch has no case for the tilt axes
Accumulate_no_tilt(s, ev) ==
    IF ev.type # EV_ABS THEN s
    ELSE IF ev.code = ABS_X THEN [s EXCEPT !.raw_x = ev.value, !.has_x = TRUE]
    ELSE IF ev.code = ABS_Y THEN [s EXCEPT !.raw_y = ev.value, !.has_y = TRUE]
    ELSE IF ev.code = ABS_PRESSURE THEN [s EXCEPT !.raw_pressure = ev.value]
    ELSE s

\* "First pass: accumulate raw values": the switch on ev.code
Accumulate(s, ev) ==
    IF ev.type # EV_ABS THEN s
    ELSE IF ev.code = ABS_X THEN [s EXCEPT !.raw_x = ev.value, !.has_x = TRUE]
    ELSE IF ev.code = ABS_Y THEN [s EXCEPT !.raw_y = ev.value, !.has_y = TRUE]
    ELSE IF ev.code = ABS_PRESSURE THEN [s EXCEPT !.raw_pressure = ev.value]
    ELSE IF ev.code = ABS_TILT_X THEN [s EXCEPT !.raw_tilt_x = ev.value]
    ELSE IF ev.code = ABS_TILT_Y THEN [s EXCEPT !.raw_tilt_y = ev.value]
    ELSE s

\* ts = ev.time.tv_sec + ev.time.tv_usec / 1e6, in microseconds
Timestamp(ev) == ev.time.tv_sec * USEC + ev.time.tv_usec

\* a write-back that also stores the filtered pressure into the tilt records
WriteBack_tilt(events, i, c, fx, fy, fp, ub) ==
    [k \in 1 .. Len(events) |->
        IF k <= i /\ events[k].type = EV_ABS
        THEN IF events[k].code = ABS_X
             THEN [events[k] EXCEPT !.value = ToInt(fx, ub)]
             ELSE IF events[k].code = ABS_Y
             THEN [events[k] EXCEPT !.value = ToInt(fy, ub)]
             ELSE [events[k] EXCEPT !.value = ToInt(fp, ub)]
        ELSE events[k]]

\* a write-back that runs over the whole buffer, the records after event i
\* included
WriteBack_whole_buffer(events, i, c, fx, fy, fp, ub) ==
    [k \in 1 .. Len(events) |->
        IF events[k].type = EV_ABS
        THEN IF events[k].code = ABS_X
             THEN [events[k] EXCEPT !.value = ToInt(fx, ub)]
             ELSE IF events[k].code = ABS_Y
             THEN [events[k] EXCEPT !.value = ToInt(fy, ub)]
             ELSE IF events[k].code = ABS_PRESSURE /\ c.pressure_smoothing
             THEN [events[k] EXCEPT !.value = ToInt(fp, ub)]
             ELSE events[k]
        ELSE events[k]]

\* a write-back that smooths the x tilt along with x
WriteBack_tilt_x(events, i, c, fx, fy, fp, ub) ==
    [k \in 1 .. Len(events) |->
        IF k <= i /\ events[k].type = EV_ABS
        THEN IF events[k].code = ABS_X \/ events[k].code = ABS_TILT_X
             THEN [events[k] EXCEPT !.value = ToInt(fx, ub)]
             ELSE IF events[k].code = ABS_Y
             THEN [events[k] EXCEPT !.value = ToInt(fy, ub)]
             ELSE IF events[k].code = ABS_PRESSURE /\ c.pressure_smoothing
             THEN [events[k] EXCEPT !.value = ToInt(fp, ub)]
             ELSE events[k]
        ELSE events[k]]

\* "Write filtered values back into event buffer": the loop over
\* k = i, i-1, ..., 0 (here 1-based: k = i, ..., 1)
WriteBack(events, i, c, fx, fy, fp, ub) ==
    [k \in 1 .. Len(events) |->
        IF k <= i /\ events[k].type = EV_ABS
        THEN IF events[k].code = ABS_X
             THEN [events[k] EXCEPT !.value = ToInt(fx, ub)]
             ELSE IF events[k].code = ABS_Y
             THEN [events[k] EXCEPT !.value = ToInt(fy, ub)]
             ELSE IF events[k].code = ABS_PRESSURE /\ c.pressure_smoothing
             THEN [events[k] EXCEPT !.value = ToInt(fp, ub)]
             ELSE events[k]
        ELSE events[k]]

\* the sample the SYN_REPORT branch reports when it emits none
NoSample == [x |-> 0, y |-> 0, p |-> 0]

\* the end of the SYN_REPORT branch after apply_filter() returned f: write
\* back.  [s, events, emitted, f: the filtered sample]
Emitted(f, c, events, i, ub) ==
    [s |-> f.s, events |-> WriteBack(events, i, c, f.x, f.y, f.p, ub),
     emitted |-> TRUE, f |-> [x |-> f.x, y |-> f.y, p |-> f.p]]

\* the SYN_REPORT branch when position data is present: push, filter,
\* write back
EmitSample(s, c, events, i, ub) ==
    Emitted(apply_filter(history_push(s, ToDouble(s.raw_x), ToDouble(s.raw_y),
                                      ToDouble(s.raw_pressure),
                                      ToDouble(s.raw_tilt_x), ToDouble(s.raw_tilt_y)),
                         c, ToDouble(s.raw_x), ToDouble(s.raw_y),
                         ToDouble(s.raw_pressure), Timestamp(events[i])),
            c, events, i, ub)

\* "g_state.has_x = false; g_state.has_y = false" at the end of the branch
ClearHas(e) == [e EXCEPT !.s.has_x = FALSE, !.s.has_y = FALSE]

\* "On SYN_REPORT: process the accumulated sample", s being the state after
\* the accumulation of event i
SynBranch(s, c, events, i, ub) ==
    IF IsSynReport(events[i])
    THEN ClearHas(IF s.has_x \/ s.has_y
                  THEN EmitSample(s, c, events, i, ub)
                  ELSE [s |-> s, events |-> events, emitted |-> FALSE, f |-> NoSample])
    ELSE [s |-> s, events |-> events, emitted |-> FALSE, f |-> NoSample]

\* "Detect pen lift -> reset filter state": the two tests after the branch
LiftBranch(e, ev) ==
    IF IsPressureLift(ev) THEN [e EXCEPT !.s = history_clear(@)]
    ELSE IF IsToolRelease(ev) THEN [e EXCEPT !.s = history_clear(@)]
    ELSE e

\* one iteration of the for loop of read(): event i (1-based) of the buffer.
\* [s: the new g_state, events: the buffer, emitted: whether the SYN_REPORT
\* branch ran, f: the sample it computed]; ub is what the write-back's
\* conversion of a NaN yields
LoopBody(s, c, events, i, ub) ==
    LiftBranch(SynBranch(Accumulate(s, events[i]), c, events, i, ub), events[i])

(* ---------------- state ---------------- *)
VARIABLES
    g_config,   \* static Config g_config
    g_state,    \* static FilterState g_state
    g_pen_fd,   \* static int g_pen_fd
    g_active,   \* static bool g_active
    pc,         \* "idle": no read yet; "loop": inside read()'s for loop;
                \* "done": read() has returned
    fd,         \* read()'s argument fd
    ret,        \* read()'s local ret, the value it returns
    buf,        \* the caller's buffer: the complete records and, after a
                \* ragged read, the record the trailing bytes begin
    idx,        \* how many events the for loop has processed
    inbuf,      \* the records as real_read() delivered them
    source,     \* the events the device holds for the reads of a run that
                \* reads one stream in pieces; empty in every other run
    obs         \* observers of the run (no program state)

vars == <<g_config, g_state, g_pen_fd, g_active, pc, fd, ret, buf, idx, inbuf, source, obs>>

\* a count of events that takes a partial record for a whole one
NumEvents_round_up == IF ret > 0 THEN (ret + EV_SIZE - 1) \div EV_SIZE ELSE 0

\* num_events = ret / ev_size
NumEvents == IF ret > 0 THEN ret \div EV_SIZE ELSE 0

(* ---------------- observers ---------------- *)
\* the five axes the assembler keeps
AxisOf(ev) ==
    IF ev.type # EV_ABS THEN "none"
    ELSE IF ev.code = ABS_X THEN "x"
    ELSE IF ev.code = ABS_Y THEN "y"
    ELSE IF ev.code = ABS_PRESSURE THEN "pressure"
    ELSE IF ev.code = ABS_TILT_X THEN "tilt_x"
    ELSE IF ev.code = ABS_TILT_Y THEN "tilt_y"
    ELSE "none"

IsLift(ev) == IsPressureLift(ev) \/ IsToolRelease(ev)

\* no open() of the pen device was the last call
NoLoad == [ran |-> FALSE, file |-> NoFile, oret |-> NO_FD]

\* samples of one stroke the observers keep
MaxStroke == 5

InitObs ==
    [ used     |-> 0,       \* records delivered by real_read() so far
      opens    |-> 0,       \* calls of open() so far
      alg      |-> "none",  \* g_config.algorithm when read() was entered
      hooked   |-> FALSE,   \* whether this read() entered the for loop
      lastval  |-> [x |-> 0, y |-> 0, pressure |-> 0, tilt_x |-> 0, tilt_y |-> 0],
      rret     |-> 0,       \* what real_read() returned to this read()
      pending  |-> FALSE,   \* an ABS_X or ABS_Y event since the last SYN_REPORT
      prevsyn  |-> 0,       \* index of the last SYN_REPORT of this batch
      resets   |-> 0,       \* lift signals processed so far (capped)
      nsample  |-> 0,       \* samples emitted since the last lift signal
      still    |-> 0,       \* consecutive samples repeating the raw position
      emits    |-> << >>,   \* the samples emitted in this read()
      stroke   |-> << >>,   \* the samples emitted since the last lift signal
      pushed   |-> << >>,   \* the arguments of the history_push() calls since
                            \* the last lift signal
      psmooth  |-> FALSE,   \* g_config.pressure_smoothing when read() was entered
      load     |-> NoLoad,  \* the last call, if it was an open() of the pen
                            \* device path that real_open() granted: the file
                            \* load_config() met, what open() returned
      monitored |-> NO_FD,  \* what the last such open() returned
      last     |-> [kind |-> "none"],
      sh_on    |-> FALSE,   \* a lift signal has been processed
      sh_from  |-> 0,       \* its index in this batch (0: an earlier batch)
      sh_state |-> InitState,
      sh_buf   |-> << >> ]

\* the state the shadow run processes event ev from: a freshly constructed
\* FilterState at a lift signal
ShadowStart(o, ev) == IF IsLift(ev) THEN InitState ELSE o.sh_state

\* the observers after the loop body has processed event i of events in
\* state s, giving r = LoopBody(s, c, events, i); shr is the loop body of the
\* shadow run
Observe(o, s, events, i, r, shr) ==
    LET ev    == events[i]
        c     == g_config
        ax    == AxisOf(ev)
        raw_x == IF ax = "x" THEN ev.value ELSE s.raw_x
        raw_y == IF ax = "y" THEN ev.value ELSE s.raw_y
        prev  == HistAt(s, s.hist_head)
        same  == s.hist_count > 0 /\ prev.x = ToDouble(raw_x) /\ prev.y = ToDouble(raw_y)
    IN  [o EXCEPT
          !.lastval  = IF ax = "none" THEN @ ELSE [@ EXCEPT ![ax] = ev.value],
          !.pending  = IF IsSynReport(ev) THEN FALSE
                       ELSE IF ax = "x" \/ ax = "y" THEN TRUE ELSE @,
          !.prevsyn  = IF IsSynReport(ev) THEN i ELSE @,
          !.resets   = IF IsLift(ev) THEN Min(@ + 1, 2) ELSE @,
          !.nsample  = IF IsLift(ev) THEN 0 ELSE IF r.emitted THEN Min(@ + 1, 3) ELSE @,
          !.still    = IF IsLift(ev) THEN 0
                       ELSE IF r.emitted THEN (IF same THEN Min(@ + 1, 9) ELSE 0) ELSE @,
          !.emits    = IF r.emitted
                       THEN Append(@, [lo |-> o.prevsyn + 1, hi |-> i,
                                       x |-> r.f.x, y |-> r.f.y])
                       ELSE @,
          !.stroke   = IF IsLift(ev) THEN << >>
                       ELSE IF r.emitted /\ Len(@) < MaxStroke
                       THEN Append(@, [alg |-> c.algorithm, strength |-> c.strength,
                                       window |-> c.moving_avg_window,
                                       L |-> c.string_length,
                                       x |-> raw_x, y |-> raw_y,
                                       fx |-> r.f.x, fy |-> r.f.y])
                       ELSE @,
          !.pushed   = IF IsLift(ev) THEN << >>
                       ELSE IF r.emitted
                       THEN Append(@, [x |-> s.raw_x, y |-> s.raw_y,
                                       pressure |-> s.raw_pressure,
                                       tilt_x |-> s.raw_tilt_x, tilt_y |-> s.raw_tilt_y])
                       ELSE @,
          !.last     = [kind |-> "event", i |-> i, ev |-> ev, emitted |-> r.emitted,
                        pending |-> o.pending \/ ax = "x" \/ ax = "y",
                        first |-> r.emitted /\ o.resets > 0 /\ o.nsample = 0,
                        raw_x |-> raw_x, raw_y |-> raw_y,
                        hc |-> s.hist_count,
                        lo |-> o.prevsyn + 1, f |-> r.f],
          !.sh_on    = @ \/ IsLift(ev),
          !.sh_from  = IF IsLift(ev) THEN i ELSE @,
          !.sh_state = shr.s,
          !.sh_buf   = shr.events]

(* ---------------- the hooks ---------------- *)
PEN_PATH == "/dev/input/event2"

\* an is_pen_device() that takes every path for the pen device
is_pen_device_any(path) == path = path

\* is_pen_device()
is_pen_device(path) == path = PEN_PATH

\* open(): real_open() returns rfd for path; the configuration file is
\* `file` when load_config() runs
OpenHook(path, rfd, file, ub) ==
    /\ pc # "loop"
    /\ IF rfd >= 0 /\ is_pen_device(path)
       THEN /\ g_pen_fd' = rfd
            /\ g_active' = TRUE
            /\ g_config' = load_config(g_config, file, ub)
       ELSE UNCHANGED <<g_pen_fd, g_active, g_config>>
    /\ obs' = [obs EXCEPT !.opens = @ + 1,
                          !.load = IF rfd >= 0 /\ path = PEN_PATH
                                   THEN [ran |-> TRUE, file |-> file, oret |-> rfd]
                                   ELSE NoLoad,
                          !.monitored = IF rfd >= 0 /\ path = PEN_PATH THEN rfd ELSE @]
    /\ UNCHANGED <<g_state, pc, fd, ret, buf, idx, inbuf, source>>

\* an early return that does not test for ALG_OFF
EarlyReturn_no_off(rfd, rret) ==
    rret <= 0 \/ rfd # g_pen_fd \/ ~g_active

\* the test of read()'s early return
EarlyReturn(rfd, rret) ==
    rret <= 0 \/ rfd # g_pen_fd \/ ~g_active \/ g_config.algorithm = "off"

\* a read() that forgets at its entry which axes the report has named
ReadHook_new_report(rfd, rret, batch) ==
    /\ pc # "loop"
    /\ fd' = rfd
    /\ ret' = rret
    /\ buf' = batch
    /\ inbuf' = batch
    /\ idx' = 0
    /\ LET early == EarlyReturn(rfd, rret)
       IN  /\ pc' = IF early THEN "done" ELSE "loop"
           /\ obs' = [obs EXCEPT !.used = IF rret > 0 THEN @ + rret \div EV_SIZE ELSE @,
                                 !.alg = g_config.algorithm,
                                 !.psmooth = g_config.pressure_smoothing,
                                 !.load = NoLoad,
                                 !.rret = rret,
                                 !.hooked = ~early,
                                 !.prevsyn = 0,
                                 !.emits = << >>,
                                 !.last = [kind |-> "none"],
                                 !.sh_from = 0,
                                 !.sh_buf = batch]
    /\ g_state' = [g_state EXCEPT !.has_x = FALSE, !.has_y = FALSE]
    /\ UNCHANGED <<g_config, g_pen_fd, g_active, source>>

\* read() up to the for loop: real_read() returns rret and the buffer then
\* holds the records of batch; the early return
ReadHook(rfd, rret, batch) ==
    /\ pc # "loop"
    /\ fd' = rfd
    /\ ret' = rret
    /\ buf' = batch
    /\ inbuf' = batch
    /\ idx' = 0
    /\ LET early == EarlyReturn(rfd, rret)
       IN  /\ pc' = IF early THEN "done" ELSE "loop"
           /\ obs' = [obs EXCEPT !.used = IF rret > 0 THEN @ + rret \div EV_SIZE ELSE @,
                                 !.alg = g_config.algorithm,
                                 !.psmooth = g_config.pressure_smoothing,
                                 !.load = NoLoad,
                                 !.rret = rret,
                                 !.hooked = ~early,
                                 !.prevsyn = 0,
                                 !.emits = << >>,
                                 !.last = [kind |-> "none"],
                                 !.sh_from = 0,
                                 !.sh_buf = batch]
    /\ UNCHANGED <<g_config, g_state, g_pen_fd, g_active, source>>

\* the effect of one iteration of read()'s for loop, r being what the loop
\* body computed
Iterate(r, shr) ==
    /\ g_state' = r.s
    /\ buf' = r.events
    /\ obs' = Observe(obs, g_state, buf, idx + 1, r, shr)
    /\ idx' = idx + 1
    /\ UNCHANGED <<g_config, g_pen_fd, g_active, pc, fd, ret, inbuf, source>>

\* the outcomes of the write-back's conversions in one iteration: chosen by
\* the build where a NaN can reach them, of no effect otherwise
Conversions == IF IsNaN(g_config.strength) \/ IsNaN(g_state.oe_x) THEN IntOfNaN ELSE {0}

\* one iteration of read()'s for loop
ReadEvent ==
    /\ pc = "loop"
    /\ idx < NumEvents
    /\ \E ub \in Conversions :
          Iterate(LoopBody(g_state, g_config, buf, idx + 1, ub),
                  LoopBody(ShadowStart(obs, buf[idx + 1]), g_config, obs.sh_buf,
                           idx + 1, ub))

\* return ret
ReadReturn ==
    /\ pc = "loop"
    /\ idx = NumEvents
    /\ pc' = "done"
    /\ UNCHANGED <<g_config, g_state, g_pen_fd, g_active, fd, ret, buf, idx, inbuf, source, obs>>

\* the state after construction, the device holding the events of stream
InitWith(stream) ==
    /\ source = stream
    /\ g_config = DefaultConfig
    /\ g_state = InitState
    /\ g_pen_fd = NO_FD
    /\ g_active = FALSE
    /\ pc = "idle"
    /\ fd = NO_FD
    /\ ret = 0
    /\ buf = << >>
    /\ idx = 0
    /\ inbuf = << >>
    /\ obs = InitObs

Init == InitWith(<< >>)

(* ---------------- inputs ---------------- *)
\* open() calls per run
MaxOpens == 2
\* records real_read() delivers per run, arbitrary event streams
MaxEvents == 3
\* trailing bytes of a ragged read
RagBytes == 7

Paths == {PEN_PATH, "/dev/input/event3"}

\* the descriptor real_open() returns for the pen device, and another one
PEN_FD == 3

OTHER_FD == 4

\* what real_open() returns: failure, or a descriptor
OpenResults == {-1, PEN_FD}

KeyVal(k, v) == [key |-> k, val |-> v]

\* configuration files: one per algorithm, with and without pressure smoothing
Files ==
    { NoFile,
      File(<<KeyVal("algorithm", "off")>>),
      File(<<KeyVal("algorithm", "moving_avg"), KeyVal("strength", "0")>>),
      File(<<KeyVal("algorithm", "gaussian"), KeyVal("pressure_smoothing", "true")>>),
      File(<<KeyVal("algorithm", "one_euro"), KeyVal("colour", "blue")>>) }

Syn(usec) == Event(EV_SYN, SYN_REPORT, 0, 0, usec)

AbsEv(code, value) == Event(EV_ABS, code, value, 0, 1000)

KeyEv(code, value) == Event(EV_KEY, code, value, 0, 1000)

\* the events of an arbitrary stream: both position axes, pressures on both
\* sides of the lift threshold, a tilt, both keys and the report boundary
Events ==
    { AbsEv(ABS_X, -1), AbsEv(ABS_X, 1000), AbsEv(ABS_Y, 1000),
      AbsEv(ABS_PRESSURE, LIFT_THRESHOLD - 1), AbsEv(ABS_PRESSURE, LIFT_THRESHOLD),
      AbsEv(ABS_TILT_X, 5),
      KeyEv(BTN_TOOL_PEN, 0), KeyEv(BTN_TOUCH, 0), Syn(2000) }

RECURSIVE SeqsUpTo(_, _)
SeqsUpTo(S, n) ==
    IF n = 0 THEN { << >> }
    ELSE LET r == SeqsUpTo(S, n - 1)
         IN  r \cup { Append(q, e) : q \in r, e \in S }

\* the batches of at most n records over the events of S, by length
BatchesOf(S, n) == [k \in 0 .. n |-> { b \in SeqsUpTo(S, n) : Len(b) = k }]

Batches == BatchesOf(Events, MaxEvents)

\* reports per run of the stroke specification
MaxReports == 4

\* the reports of a stroke: one axis event and its SYN_REPORT
Reports ==
    { <<AbsEv(ABS_X, 1000), Syn(2000)>>, <<AbsEv(ABS_X, -1), Syn(2000)>>,
      <<AbsEv(ABS_Y, 1000), Syn(2000)>>, <<AbsEv(ABS_PRESSURE, 0), Syn(2000)>> }

RECURSIVE ReportSeqs(_)
ReportSeqs(n) ==
    IF n = 0 THEN { << >> }
    ELSE { r \o q : r \in Reports, q \in ReportSeqs(n - 1) }

\* the batches of whole reports, by their number of records
StrokeBatches ==
    [k \in 0 .. 2 * MaxReports |->
        IF k % 2 = 0 THEN ReportSeqs(k \div 2) ELSE {}]

\* reports per run of the string-pull specification
MaxPullReports == 5

\* the coordinates of its raw positions
PullCoords == {0, 650}

\* its reports: both axes and the SYN_REPORT
PullReports ==
    { <<AbsEv(ABS_X, x), AbsEv(ABS_Y, y), Syn(2000)>> : x \in PullCoords, y \in PullCoords }

RECURSIVE PullSeqs(_)
PullSeqs(n) ==
    IF n = 0 THEN { << >> }
    ELSE { r \o q : r \in PullReports, q \in PullSeqs(n - 1) }

\* the batches of whole position reports, by their number of records
PullBatches ==
    [k \in 0 .. 3 * MaxPullReports |->
        IF k % 3 = 0 THEN PullSeqs(k \div 3) ELSE {}]

\* its configuration files: the default strength and the weakest
PullFiles ==
    { NoFile,
      File(<<KeyVal("algorithm", "string_pull"), KeyVal("strength", "0")>>) }

\* a report that names x only, and the report of a pressure lift
XReport(v) == <<AbsEv(ABS_X, v), Syn(2000)>>

LiftReport == <<AbsEv(ABS_PRESSURE, 0), Syn(2000)>>

\* the sample streams of the scenarios: a ramp, a jump that then rests, a lift
ScenarioStreams ==
    { <<XReport(0), XReport(10), XReport(20), XReport(30), XReport(40)>>,
      <<XReport(0), XReport(1000), XReport(1000)>>,
      <<LiftReport>> }

\* the runs of consecutive reports of a stream
Segments(st) ==
    { SubSeq(st, a, b) : a \in 1 .. Len(st), b \in 1 .. Len(st) } \ { << >> }

RECURSIVE Flatten(_)
Flatten(reports) ==
    IF reports = << >> THEN << >> ELSE Head(reports) \o Flatten(Tail(reports))

\* the batches a read() of a scenario delivers, by their number of records:
\* a run of consecutive reports of one stream
ScenarioBatches ==
    [k \in 0 .. 2 * MaxStroke |->
        IF k = 0 THEN { << >> }
        ELSE { Flatten(g) : g \in { h \in UNION { Segments(st) : st \in ScenarioStreams } :
                                         2 * Len(h) = k } }]

\* the configurations of the scenarios
ScenarioFiles ==
    { NoFile,
      File(<<KeyVal("algorithm", "moving_avg"), KeyVal("strength", "0")>>) }

\* the strength tokens of the configuration files: inside the range, on its
\* ends, outside it, and no number
StrengthTokens == {"0", "0.02", "0.5", "1", "2.5", "-1", "nan", "high"}

\* the algorithm names of the files, one of them unknown
AlgorithmTokens == Algorithms \cup {"bezier"}

\* the configuration files of the loader: absent, one key, an unknown key,
\* and keys that repeat
ConfigFiles ==
    { NoFile, File(<< >>), File(<<KeyVal("colour", "blue")>>) }
    \cup { File(<<KeyVal("strength", v)>>) : v \in StrengthTokens }
    \cup { File(<<KeyVal("algorithm", a)>>) : a \in AlgorithmTokens }
    \cup { File(<<KeyVal("pressure_smoothing", b), KeyVal("tilt_smoothing", b)>>) :
               b \in {"true", "false"} }
    \cup { File(<<KeyVal("algorithm", "gaussian"), KeyVal("strength", "2.5"),
                  KeyVal("strength", "0.02")>>) }

\* reports per run of the specification of the divisors
MaxDivideReports == 3

\* its reports: a position that repeats or moves, at a time that repeats,
\* advances or goes back
DivideReports ==
    { <<AbsEv(ABS_X, x), Syn(t)>> : x \in {0, 1000}, t \in {2000, 4000} }

RECURSIVE DivideSeqs(_)
DivideSeqs(n) ==
    IF n = 0 THEN { << >> }
    ELSE { r \o q : r \in DivideReports, q \in DivideSeqs(n - 1) }

DivideBatches ==
    [k \in 0 .. 2 * MaxDivideReports |->
        IF k % 2 = 0 THEN DivideSeqs(k \div 2) ELSE {}]

\* its configuration files: each filter, and a strength that is no number
DivideFiles ==
    { File(<<KeyVal("algorithm", a)>>) : a \in Algorithms \ {"off"} }
    \cup { File(<<KeyVal("algorithm", "one_euro"), KeyVal("strength", "nan")>>),
           File(<<KeyVal("algorithm", "one_euro"), KeyVal("strength", "1")>>) }

\* reports per run of the specification of the ring, and lift signals
MaxRingReports == 68

MaxRingLifts == 1

\* the n-th report of its stream: x and y in turn, never the same twice in a row
RingReport(n) ==
    IF n % 2 = 0 THEN <<AbsEv(ABS_X, (3 * n) % 17), Syn(2000)>>
    ELSE <<AbsEv(ABS_Y, (5 * n) % 13), Syn(2000)>>

\* the report of a tool release
RingLift == <<KeyEv(BTN_TOOL_PEN, 0), Syn(2000)>>

\* its configuration files: the two filters that read the history
RingFiles ==
    { File(<<KeyVal("algorithm", "moving_avg"), KeyVal("strength", "1")>>),
      File(<<KeyVal("algorithm", "gaussian"), KeyVal("pressure_smoothing", "true")>>) }

\* reports per run of the specification of the pressure records
MaxPressureReports == 2

\* its reports: a pressure of a pen in contact, a position, the SYN_REPORT
PressureReports ==
    { <<AbsEv(ABS_PRESSURE, p), AbsEv(ABS_X, x), Syn(2000)>> :
          p \in {60, 70}, x \in {0, 1000} }

RECURSIVE PressureSeqs(_)
PressureSeqs(n) ==
    IF n = 0 THEN { << >> }
    ELSE { r \o q : r \in PressureReports, q \in PressureSeqs(n - 1) }

PressureBatches ==
    [k \in 0 .. 3 * MaxPressureReports |->
        IF k % 3 = 0 THEN PressureSeqs(k \div 3) ELSE {}]

\* its configuration files: the moving average with and without pressure
\* smoothing
PressureFiles ==
    { File(<<KeyVal("algorithm", "moving_avg")>>),
      File(<<KeyVal("algorithm", "moving_avg"), KeyVal("pressure_smoothing", "true")>>) }

\* records real_read() delivers per run of the specification of the gate
MaxGateEvents == 4

\* its batches: every sequence of a position event and a SYN_REPORT
GateBatches == BatchesOf({AbsEv(ABS_X, 1000), Syn(2000)}, MaxGateEvents)

\* what its real_open() returns: failure or either descriptor
GateOpenResults == {-1, PEN_FD, OTHER_FD}

\* its configuration files
GateFiles == { NoFile, File(<<KeyVal("algorithm", "moving_avg")>>) }

\* the streams of the runs that read one stream in pieces: reports of one
\* and of two axes, a tilt, both lift signals inside and between reports,
\* timestamps that advance, repeat and go back, a SYN_REPORT without a
\* position
Streams ==
    { <<AbsEv(ABS_X, 1000), AbsEv(ABS_Y, 1000), Syn(2000), AbsEv(ABS_X, -1), Syn(4000),
        AbsEv(ABS_Y, 0), Syn(4000), Syn(6000)>>,
      <<AbsEv(ABS_X, 0), Syn(2000), AbsEv(ABS_X, 1000), AbsEv(ABS_PRESSURE, LIFT_THRESHOLD - 1),
        Syn(4000), AbsEv(ABS_X, 1000), Syn(2000), AbsEv(ABS_X, 0)>>,
      <<AbsEv(ABS_TILT_X, 5), AbsEv(ABS_X, 1000), Syn(2000), KeyEv(BTN_TOOL_PEN, 0),
        AbsEv(ABS_Y, 1000), Syn(4000), AbsEv(ABS_X, -1), Syn(6000)>> }

\* their configuration files: each filter
StreamFiles == { File(<<KeyVal("algorithm", a)>>) : a \in Algorithms \ {"off"} }

(* ---------------- specifications ---------------- *)
\* an open() that real_open() answers with one of results
OpenAs(files, results) ==
    /\ obs.opens < MaxOpens
    /\ \E path \in Paths, rfd \in results, file \in files, ub \in IntOfNaN :
           OpenHook(path, rfd, file, ub)

Open(files) == OpenAs(files, OpenResults)

\* a read() of the pen descriptor that real_read() fails: the buffer keeps
\* what the caller had in it, the records of the read() before
ReadFails ==
    ReadHook(PEN_FD, -1, buf)

\* what the buffer holds after the complete records when real_read() has
\* delivered rag bytes more: nothing, or a record of which only the first
\* rag bytes (of its timestamp) are new, the rest being what the caller's
\* buffer held, here a position record
Trailing(rag) == IF rag = 0 THEN << >> ELSE <<AbsEv(ABS_X, -1)>>

\* a read() on a descriptor of fds that delivers the records of a batch b,
\* and rag bytes of one more record
Read(fds, batches, budget, rags) ==
    \E n \in 0 .. (budget - obs.used) :
        \E rfd \in fds, b \in batches[n], rag \in rags :
            ReadHook(rfd, EV_SIZE * Len(b) + rag, b \o Trailing(rag))

Next ==
    \/ Open(Files)
    \/ Read({PEN_FD}, Batches, MaxEvents, {0, RagBytes})
    \/ Read({OTHER_FD}, Batches, MaxEvents, {0})
    \/ ReadFails
    \/ ReadEvent
    \/ ReadReturn

Spec == Init /\ [][Next]_vars

\* strokes: reads that deliver whole reports
NextStroke ==
    \/ Open(Files)
    \/ Read({PEN_FD}, StrokeBatches, 2 * MaxReports, {0})
    \/ ReadFails
    \/ ReadEvent
    \/ ReadReturn

SpecStroke == Init /\ [][NextStroke]_vars

\* string pull: reads that deliver whole position reports
NextPull ==
    \/ Open(PullFiles)
    \/ Read({PEN_FD}, PullBatches, 3 * MaxPullReports, {0})
    \/ ReadFails
    \/ ReadEvent
    \/ ReadReturn

SpecPull == Init /\ [][NextPull]_vars

\* scenarios: reads that deliver runs of the scenario streams
NextScenario ==
    \/ Open(ScenarioFiles)
    \/ Read({PEN_FD}, ScenarioBatches, 2 * MaxStroke, {0})
    \/ ReadEvent
    \/ ReadReturn

SpecScenario == Init /\ [][NextScenario]_vars

\* the loader: opens that find any of the configuration files
NextConfig == Open(ConfigFiles)

SpecConfig == Init /\ [][NextConfig]_vars

\* the divisors: every filter on positions and times that repeat
NextDivide ==
    \/ Open(DivideFiles)
    \/ Read({PEN_FD}, DivideBatches, 2 * MaxDivideReports, {0})
    \/ ReadEvent
    \/ ReadReturn

SpecDivide == Init /\ [][NextDivide]_vars

\* the ring: one long stream of reports, read one report at a time, the
\* device being opened before the first read
OpenFirst == obs.used = 0 /\ Open(RingFiles)

RingRead ==
    /\ obs.used < 2 * MaxRingReports
    /\ ReadHook(PEN_FD, 2 * EV_SIZE, RingReport(obs.used \div 2))

RingReadLift ==
    /\ obs.used < 2 * MaxRingReports
    /\ obs.resets < MaxRingLifts
    /\ ReadHook(PEN_FD, 2 * EV_SIZE, RingLift)

NextRing ==
    \/ OpenFirst
    \/ RingRead
    \/ RingReadLift
    \/ ReadEvent
    \/ ReadReturn

SpecRing == Init /\ [][NextRing]_vars

\* pressure records: reads that deliver reports with a pressure
NextPressure ==
    \/ Open(PressureFiles)
    \/ Read({PEN_FD}, PressureBatches, 3 * MaxPressureReports, {0})
    \/ ReadEvent
    \/ ReadReturn

SpecPressure == Init /\ [][NextPressure]_vars

\* the gate: the pen device opened under either descriptor, reads of both
\* descriptors that deliver records, nothing, or fail
GateReadFails ==
    \E rfd \in {PEN_FD, OTHER_FD} : ReadHook(rfd, -1, buf)

NextGate ==
    \/ OpenAs(GateFiles, GateOpenResults)
    \/ Read({PEN_FD, OTHER_FD}, GateBatches, MaxGateEvents, {0})
    \/ GateReadFails
    \/ ReadEvent
    \/ ReadReturn

SpecGate == Init /\ [][NextGate]_vars

\* one stream in pieces: the device is opened, then every read() delivers
\* the next events of the stream, as many as it happens to, or fails
InitBatching == \E st \in Streams : InitWith(st)

OpenStream == obs.used = 0 /\ Open(StreamFiles)

ReadPiece ==
    /\ g_active
    /\ \E k \in 0 .. Len(source) - obs.used :
           ReadHook(g_pen_fd, k * EV_SIZE, SubSeq(source, obs.used + 1, obs.used + k))

NextBatching ==
    \/ OpenStream
    \/ ReadPiece
    \/ ReadFails
    \/ ReadEvent
    \/ ReadReturn

SpecBatching == InitBatching /\ [][NextBatching]_vars

(* ---------------- claims about the read hook ---------------- *)
PositionOrPressure(ev) ==
    ev.type = EV_ABS /\ ev.code \in {ABS_X, ABS_Y, ABS_PRESSURE}

C2_OffIdentity ==
    obs.alg = "off" => buf = inbuf /\ ret = obs.rret

\* a read() of the open pen device with the algorithm off has returned a
\* batch with a position report whose raw x the write-back would not keep
C2_Witness ==
    /\ pc = "done" /\ obs.alg = "off" /\ g_active /\ fd = g_pen_fd /\ ret > 0
    /\ \E k \in 1 .. NumEvents : k < NumEvents /\
          buf[k] = AbsEv(ABS_X, -1) /\ IsSynReport(buf[k + 1])

C16_RaggedRead ==
    (obs.rret > 0 /\ obs.rret % EV_SIZE # 0) =>
        LET n == obs.rret \div EV_SIZE
        IN  /\ idx <= n
            /\ obs.last.kind = "event" => obs.last.i <= n
            /\ Len(buf) = n + 1
            /\ buf[n + 1] = inbuf[n + 1]
            /\ (pc = "done" /\ obs.hooked) => idx = n /\ ret = obs.rret

\* a ragged read() of the pen has returned: its last complete record was a
\* SYN_REPORT that rewrote a record, and the trailing record is as delivered
C16_Witness ==
    /\ pc = "done" /\ obs.hooked
    /\ obs.rret % EV_SIZE = RagBytes
    /\ obs.rret \div EV_SIZE >= 2
    /\ obs.last.kind = "event" /\ obs.last.emitted
    /\ obs.last.i = obs.rret \div EV_SIZE
    /\ buf # inbuf
    /\ buf[Len(buf)] = AbsEv(ABS_X, -1)

\* C25 (moving average does no pressure smoothing): at every point of every
\* read() entered with algorithm moving_avg, whatever pressure_smoothing is
\* and however many reports the batch holds, every ABS_PRESSURE record holds
\* the value real_read() delivered.
C25_AveragePressure ==
    obs.alg = "moving_avg" =>
        \A k \in 1 .. Len(buf) :
            (inbuf[k].type = EV_ABS /\ inbuf[k].code = ABS_PRESSURE) =>
                buf[k].value = inbuf[k].value

\* the step is a call of open()
OpenStep == obs'.opens # obs.opens

\* the step is the entry of a read(): real_read() has filled the buffer
ReadEntry == pc # "loop" /\ obs'.opens = obs.opens

\* descriptor f is the one the last granted open() of the pen device
\* returned, and r bytes were read
Gated(f, r) == obs.monitored # NO_FD /\ f = obs.monitored /\ r > 0

\* C27 (monitored-device gating): a read() on a descriptor other than the
\* one the most recent granted open() of the pen device path returned, one
\* before any such open(), and one whose real_read() returned no bytes or
\* failed, returns at once with the buffer as real_read() left it; the
\* entry of a read() changes no state in any case; the filter and assembler
\* state and the buffer change only inside the loop of a read() of that
\* descriptor that got more than 0 bytes; and an open() of another path, or
\* one that real_open() refused, changes neither the monitored descriptor
\* nor the configuration, and no open() changes the filter state.
C27_Gating ==
    [][ /\ ReadEntry =>
              /\ g_state' = g_state /\ g_config' = g_config
              /\ g_pen_fd' = g_pen_fd /\ g_active' = g_active
              /\ buf' = inbuf'
              /\ ~Gated(fd', ret') => pc' = "done"
        /\ pc = "loop" => Gated(fd, ret)
        /\ (g_state' # g_state \/ (buf' # buf /\ ~ReadEntry)) => pc = "loop"
        /\ OpenStep =>
              /\ g_state' = g_state /\ buf' = buf
              /\ ~obs'.load.ran =>
                    /\ g_pen_fd' = g_pen_fd /\ g_active' = g_active
                    /\ g_config' = g_config
                    /\ obs'.monitored = obs.monitored
              /\ g_pen_fd' = obs'.monitored ]_vars

\* the pen device was opened again under another descriptor, and a read() of
\* the descriptor it had before, which had been filtered, has returned a
\* position report untouched
C27_Witness ==
    /\ pc = "done" /\ ~obs.hooked
    /\ obs.monitored = OTHER_FD /\ fd = PEN_FD /\ ret = 2 * EV_SIZE
    /\ g_state.hist_count > 0
    /\ buf = <<AbsEv(ABS_X, 1000), Syn(2000)>>

\* the value real_read() delivered in the most recent record of axis code
\* among the first n records of this read(), dflt if there is none
LastDelivered(code, n, dflt) ==
    LET K == { k \in 1 .. n : inbuf[k].type = EV_ABS /\ inbuf[k].code = code }
    IN  IF K = {} THEN dflt ELSE inbuf[CHOOSE k \in K : \A j \in K : j <= k].value

\* C28 (filters only ever see raw device values): at every point of the loop
\* of a read() no record at or after the one to be read next has been
\* modified; the event the loop body has just read is the record as
\* real_read() delivered it; each axis of the assembler holds the value
\* delivered in the most recent record of that axis (what it held before
\* the read() if the batch has named none); and the sample just pushed into
\* the history and handed to the filter is the assembler's.
C28_RawValuesOnly ==
    pc = "loop" =>
        /\ \A k \in idx + 1 .. Len(buf) : buf[k] = inbuf[k]
        /\ obs.last.kind = "event" => obs.last.ev = inbuf[obs.last.i]
        /\ g_state.raw_x = LastDelivered(ABS_X, idx, g_state.raw_x)
        /\ g_state.raw_y = LastDelivered(ABS_Y, idx, g_state.raw_y)
        /\ g_state.raw_pressure = LastDelivered(ABS_PRESSURE, idx, g_state.raw_pressure)
        /\ g_state.raw_tilt_x = LastDelivered(ABS_TILT_X, idx, g_state.raw_tilt_x)
        /\ g_state.raw_tilt_y = LastDelivered(ABS_TILT_Y, idx, g_state.raw_tilt_y)
        /\ (obs.last.kind = "event" /\ obs.last.emitted) =>
              /\ obs.last.raw_x = g_state.raw_x /\ obs.last.raw_y = g_state.raw_y
              /\ HistAt(g_state, g_state.hist_head).x = ToDouble(g_state.raw_x)
              /\ HistAt(g_state, g_state.hist_head).y = ToDouble(g_state.raw_y)
              /\ HistAt(g_state, g_state.hist_head).pressure = ToDouble(g_state.raw_pressure)

\* a report has been written back, changing its position record, and the
\* next record to be read is a position of the same axis, as delivered
C28_Witness ==
    /\ pc = "loop" /\ idx = 2 /\ NumEvents = 3
    /\ obs.last.kind = "event" /\ obs.last.emitted
    /\ buf[1].value # inbuf[1].value
    /\ buf[3] = AbsEv(ABS_X, 1000)

(* ---------------- claims about the stroke reset ---------------- *)
\* this step is the loop body processing the next event of the buffer
ProcessesEvent == pc = "loop" /\ idx < NumEvents /\ idx' = idx + 1

\* the history is empty, the string anchor and the 1 euro state uninitialised
IsReset(s) == s.hist_count = 0 /\ ~s.string_init /\ ~s.oe_init

\* nothing of the history, the anchor or the 1 euro state was cleared from s to t
NothingCleared(s, t) ==
    /\ t.hist_count >= s.hist_count
    /\ s.string_init => t.string_init
    /\ s.oe_init => t.oe_init

DOCUMENTED_LIFT_THRESHOLD == 100

\* C22 (documented lift threshold): the step in which the loop body
\* processes an ABS_PRESSURE event ends with all filter state reset when the
\* value of the event is below 100, and clears nothing when it is not.
C22_DocumentedThreshold ==
    [][ (ProcessesEvent /\ buf[idx + 1].type = EV_ABS
                        /\ buf[idx + 1].code = ABS_PRESSURE) =>
          IF buf[idx + 1].value < DOCUMENTED_LIFT_THRESHOLD
          THEN IsReset(g_state')
          ELSE NothingCleared(g_state, g_state') ]_vars

\* raw positions the next sample after a lift may have, on the grid
SnapPositions == { ToDouble(v) : v \in {-1, 0, 1000} }

\* the string-pull output of a next sample at any position is that position
SnapsToPen(s, c) ==
    \A x \in SnapPositions, y \in SnapPositions :
        /\ string_pull_filter(s, c, x, y).string_x = x
        /\ string_pull_filter(s, c, x, y).string_y = y

\* C23 (documented lift handling): the step in which the loop body processes
\* an EV_KEY event with code BTN_TOUCH and value 0 ends with the history
\* empty and the string anchor and the 1 euro state uninitialised, so that
\* the string-pull output of the next sample is the pen position.
C23_TouchRelease ==
    [][ (ProcessesEvent /\ buf[idx + 1] = KeyEv(BTN_TOUCH, 0)) =>
          /\ IsReset(g_state')
          /\ SnapsToPen(g_state', g_config) ]_vars

(* ---------------- claims about the sample assembler ---------------- *)
\* the step pushed one sample into the history
Pushed ==
    /\ g_state'.hist_head = (g_state.hist_head + 1) % MAX_HISTORY
    /\ g_state'.hist_count = Min(g_state.hist_count + 1, MAX_HISTORY)

\* C7 (sample emission rule): the step in which the loop body processes a
\* SYN_REPORT emits a sample (pushes it into the history, filters it and
\* writes it back) if and only if an ABS_X or ABS_Y event was processed
\* since the previous SYN_REPORT, whatever lies between them; a SYN_REPORT
\* without new position data changes neither the filter state nor the
\* buffer.
C7_EmissionRule ==
    [][ (ProcessesEvent /\ IsSynReport(buf[idx + 1])) =>
          IF obs.pending
          THEN Pushed /\ obs'.last.emitted
          ELSE buf' = buf /\ ~obs'.last.emitted /\
               g_state' = [g_state EXCEPT !.has_x = FALSE, !.has_y = FALSE] ]_vars

LastOf(code, lo, hi) ==
    LET K == { k \in lo .. hi : buf[k].type = EV_ABS /\ buf[k].code = code }
    IN  IF K = {} THEN 0 ELSE CHOOSE k \in K : \A j \in K : j <= k

\* the most recent record of axis code among records lo..hi, if any, holds v
Carries(code, lo, hi, v) ==
    LastOf(code, lo, hi) # 0 => buf[LastOf(code, lo, hi)].value = v

\* C3 (independent per-report correction): when read() returns, the ABS_X
\* and ABS_Y records of every report of the batch that emitted a sample hold
\* the filtered value computed for that report, rounded; the write-back of
\* a later report of the batch has not changed them.
C3_PerReportCorrection ==
    pc = "done" =>
        \A n \in 1 .. Len(obs.emits) :
            LET e == obs.emits[n]
            IN  /\ Carries(ABS_X, e.lo, e.hi, RoundToInt(e.x))
                /\ Carries(ABS_Y, e.lo, e.hi, RoundToInt(e.y))

\* C4 (stroke reset clears state): the first sample emitted after a reset
\* signal is written back with x and y equal to the raw x and y of that
\* sample, for every algorithm and every integer raw coordinate.
C4_FirstSampleIsRaw ==
    (obs.last.kind = "event" /\ obs.last.first) =>
        /\ Carries(ABS_X, obs.last.lo, obs.last.i, obs.last.raw_x)
        /\ Carries(ABS_Y, obs.last.lo, obs.last.i, obs.last.raw_y)

\* C6 (no state persists across a reset): when read() returns after a reset
\* signal was processed, every record after the reset signal holds the value
\* it holds in the run of the same events from the reset signal onward with
\* nothing received before it.
C6_NoStateAcrossReset ==
    (pc = "done" /\ obs.hooked /\ obs.sh_on) =>
        \A k \in (obs.sh_from + 1) .. Len(buf) : buf[k].value = obs.sh_buf[k].value

(* ---------------- claims about the string pull ---------------- *)
\* the loop body has just emitted a sample through string_pull_filter()
PullSampled ==
    /\ pc = "loop" /\ obs.last.kind = "event" /\ obs.last.emitted
    /\ g_config.algorithm = "string_pull"

\* the square of the distance from the anchor to the raw position of the
\* sample just emitted, on the grid
AnchorDistSq ==
    (ToDouble(obs.last.raw_x) - g_state.string_x) * (ToDouble(obs.last.raw_x) - g_state.string_x)
    + (ToDouble(obs.last.raw_y) - g_state.string_y) * (ToDouble(obs.last.raw_y) - g_state.string_y)

StillSamples == 3

\* C10 (string-pull convergence): once the same raw position has been fed
\* for StillSamples further samples, the output is the raw position, to
\* within the rounding of the computation.
C10_PullConverges ==
    (PullSampled /\ obs.still >= StillSamples) =>
        /\ Abs(g_state.string_x - ToDouble(obs.last.raw_x)) <= 3
        /\ Abs(g_state.string_y - ToDouble(obs.last.raw_y)) <= 3

(* ---------------- claims about the scenarios ---------------- *)
\* the first n samples of the stroke were taken under algorithm alg at
\* strength and have the raw x values xs, with y never named
StrokeBegins(n, alg, strength, xs) ==
    /\ Len(obs.stroke) >= n
    /\ \A j \in 1 .. n :
          /\ obs.stroke[j].alg = alg
          /\ obs.stroke[j].strength = strength
          /\ obs.stroke[j].x = xs[j]
          /\ obs.stroke[j].y = 0

\* the raw and the filtered x values of the string-pull scenario
PullRaw == <<0, 1000, 1000>>

PullOut == <<0, 450, 450>>

\* C11 (string-pull scenario): in a stroke under string_pull at strength 0.5
\* the string length is 550; the first sample at raw (0,0) is output as
\* (0,0), a next sample at raw (1000,0) as (450,0), and a further sample at
\* raw (1000,0) again as (450,0).
C11_PullScenario ==
    \A n \in 1 .. Len(PullRaw) :
        StrokeBegins(n, "string_pull", MILLI \div 2, PullRaw) =>
            /\ obs.stroke[n].L = ToDouble(550)
            /\ obs.stroke[n].fx = ToDouble(PullOut[n])
            /\ obs.stroke[n].fy = ToDouble(0)

\* the three samples of the string-pull scenario have been emitted
C11_Witness ==
    /\ StrokeBegins(3, "string_pull", MILLI \div 2, PullRaw)
    /\ g_state.string_x = ToDouble(450)

\* the raw and the filtered x values of the moving-average scenario
RampRaw == <<0, 10, 20, 30, 40>>

\* the outputs the scenario states, and the means over a window of four
RampOutStated == <<0, 5, 10, 15, 20>>

RampOut == <<0, 5, 10, 15, 25>>

\* C12 as stated (moving-average scenario): in a stroke under moving_avg at
\* strength 0 the window is 4 and the samples with raw values 0, 10, 20, 30,
\* 40 are output as 0, 5, 10, 15, 20.
C12_RampScenarioStated ==
    \A n \in 1 .. Len(RampRaw) :
        StrokeBegins(n, "moving_avg", 0, RampRaw) =>
            /\ obs.stroke[n].window = 4
            /\ obs.stroke[n].fx = ToDouble(RampOutStated[n])

\* C12 as amended: in a stroke under moving_avg at strength 0 the window is 4
\* and the samples with raw values 0, 10, 20, 30, 40 are output as 0, 5, 10,
\* 15, 25: the fifth output is the mean of 10, 20, 30, 40, the window no
\* longer holding the first sample.
C12_RampScenario ==
    \A n \in 1 .. Len(RampRaw) :
        StrokeBegins(n, "moving_avg", 0, RampRaw) =>
            /\ obs.stroke[n].window = 4
            /\ obs.stroke[n].fx = ToDouble(RampOut[n])
            /\ obs.stroke[n].fy = ToDouble(0)

\* the five samples of the moving-average scenario have been emitted
C12_Witness ==
    /\ StrokeBegins(5, "moving_avg", 0, RampRaw)
    /\ g_state.hist_count = 5

(* ---------------- claims about the moving average ---------------- *)
\* the raw x and y values of samples lo..hi of the stroke
StrokeXs(lo, hi) == { obs.stroke[j].x : j \in lo .. hi }

StrokeYs(lo, hi) == { obs.stroke[j].y : j \in lo .. hi }

RECURSIVE StrokeSum(_, _, _)
StrokeSum(axis, lo, hi) ==
    IF lo > hi THEN 0
    ELSE (IF axis = "x" THEN obs.stroke[hi].x ELSE obs.stroke[hi].y)
         + StrokeSum(axis, lo, hi - 1)

\* v lies between the least and the greatest member of S
Within(v, S) ==
    /\ \E a \in S : ToDouble(a) <= v
    /\ \E b \in S : v <= ToDouble(b)

\* C13 (moving-average bound): every sample emitted under moving_avg is
\* output, on each axis, as the arithmetic mean of the last
\* min(window, samples in this stroke) raw values of that axis, the sample's
\* own included, and so lies between their minimum and their maximum.
C13_AverageBound ==
    \A n \in 1 .. Len(obs.stroke) :
        obs.stroke[n].alg = "moving_avg" =>
            LET m  == Min(obs.stroke[n].window, n)
                lo == n - m + 1
            IN  /\ Within(obs.stroke[n].fx, StrokeXs(lo, n))
                /\ Within(obs.stroke[n].fy, StrokeYs(lo, n))
                /\ obs.stroke[n].fx = TruncDiv(ToDouble(StrokeSum("x", lo, n)), m)
                /\ obs.stroke[n].fy = TruncDiv(ToDouble(StrokeSum("y", lo, n)), m)

\* a fifth sample of a stroke was averaged over a window of four that no
\* longer holds the first, and its values are not all equal
C13_Witness ==
    /\ Len(obs.stroke) = 5
    /\ obs.stroke[5].alg = "moving_avg" /\ obs.stroke[5].window = 4
    /\ obs.stroke[1].x # obs.stroke[2].x
    /\ obs.stroke[5].fx # ToDouble(obs.stroke[5].x)

(* ---------------- claims about the configuration ---------------- *)
\* C14 as stated (window derivation): for every strength in [0,1] the window
\* the filter uses is 4 + round(strength * 28), and lies in 4 .. 32.
C14_WindowRounded ==
    (g_active /\ g_config.strength \in 0 .. MILLI) =>
        /\ g_config.moving_avg_window = 4 + RoundMilli(g_config.strength * 28)
        /\ g_config.moving_avg_window \in 4 .. 32

\* C14 as amended: for every strength in [0,1] the window the filter uses is
\* 4 plus the integer part of strength * 28, the product being truncated
\* and not rounded, and lies in 4 .. 32.
C14_WindowTruncated ==
    (g_active /\ g_config.strength \in 0 .. MILLI) =>
        /\ g_config.moving_avg_window = 4 + (g_config.strength * 28) \div MILLI
        /\ g_config.moving_avg_window \in 4 .. 32

\* a strength whose product with 28 has a fraction above one half was loaded
C14_Witness ==
    /\ g_active /\ obs.load.ran
    /\ g_config.strength = 20
    /\ g_config.moving_avg_window = 4

\* C18 (configuration is loaded once): once the monitored device has been
\* opened, no step of the program changes any field of the configuration.
C18_LoadedOnce ==
    [][ g_active => g_config' = g_config ]_vars

\* the tunables derive_params() computes at strength s in [0,1]
Derived(c, s) ==
    /\ c.moving_avg_window = 4 + (s * 28) \div MILLI
    /\ c.gaussian_sigma = ToDouble(50) + (s * 450 * FP) \div MILLI
    /\ c.string_length = ToDouble(100) + (s * 900 * FP) \div MILLI
    /\ c.one_euro_mincutoff = 1500 - (s * 1300) \div MILLI
    /\ c.one_euro_beta = 1000 + s * 10

\* C19 (defaults on missing configuration): whenever load_config() has run
\* and found no configuration file, the configuration is string_pull at
\* strength 0.5 with both smoothing flags false and the tunables of strength
\* 0.5 (string length 550), and open() has returned the descriptor.
C19_DefaultsOnMissing ==
    (obs.load.ran /\ ~obs.load.file.exists) =>
        /\ g_config.algorithm = "string_pull"
        /\ g_config.strength = MILLI \div 2
        /\ ~g_config.pressure_smoothing
        /\ ~g_config.tilt_smoothing
        /\ Derived(g_config, MILLI \div 2)
        /\ g_config.string_length = ToDouble(550)
        /\ obs.load.oret >= 0 /\ g_pen_fd = obs.load.oret

\* the strength lines of a file, in order
StrengthLines(file) == SelectSeq(file.lines, LAMBDA l : l.key = "strength")

\* the lines of a file that name a known key, and a known algorithm if they
\* name one
KnownLines(file) ==
    SelectSeq(file.lines,
              LAMBDA l : /\ l.key \in {"algorithm", "strength",
                                        "pressure_smoothing", "tilt_smoothing"}
                         /\ l.key = "algorithm" => l.val \in Algorithms)

\* the value v clamped to [0,1], in 1/MILLI
Clamp(v) == IF v < 0 THEN 0 ELSE IF v > MILLI THEN MILLI ELSE v

\* C20 (strength clamping and derivation): a step in which load_config()
\* runs on a file ends with the strength in [0,1]; when the file names a
\* strength it is the last value named, 0 if that is below 0 and 1 if it is
\* above 1; every derived tunable has the value of its formula at that
\* strength; and the lines with an unknown key or an unknown algorithm name
\* change nothing: the configuration is the one the file without them
\* loads to.
C20_ClampAndDerive ==
    [][ (obs'.load.ran /\ obs'.opens # obs.opens /\ obs'.load.file.exists) =>
          LET file == obs'.load.file
              sl   == StrengthLines(file)
          IN  /\ g_config'.strength \in 0 .. MILLI
              /\ sl # << >> =>
                    g_config'.strength = Clamp(Atof(sl[Len(sl)].val))
              /\ Derived(g_config', g_config'.strength)
              /\ \E ub \in IntOfNaN :
                    g_config' = load_config(g_config, File(KnownLines(file)), ub) ]_vars

(* ---------------- claims about the divisors ---------------- *)
\* the next step of the loop emits a sample
AboutToEmit ==
    /\ pc = "loop" /\ idx < NumEvents
    /\ IsSynReport(buf[idx + 1])
    /\ g_state.has_x \/ g_state.has_y

\* the state the filter of that step runs in: the sample is pushed
SampleState ==
    history_push(g_state, ToDouble(g_state.raw_x), ToDouble(g_state.raw_y),
                 ToDouble(g_state.raw_pressure),
                 ToDouble(g_state.raw_tilt_x), ToDouble(g_state.raw_tilt_y))

\* dist of string_pull_filter() for the sample of state s
PullDist(s) ==
    IF ~s.string_init THEN 0
    ELSE Hypot(ToDouble(s.raw_x) - s.string_x, ToDouble(s.raw_y) - s.string_y)

\* n of moving_avg_filter()
AvgCount(s, c) ==
    Min(s.hist_count, IF c.moving_avg_window < 1 THEN 1 ELSE c.moving_avg_window)

\* gaussian_smooth() divides by sum_w, or returns the raw sample
GaussDividesSafely(s, c) ==
    \/ IsNaN(c.gaussian_sigma)
    \/ s.hist_count < 2
    \/ /\ c.gaussian_sigma > 0
       /\ GaussWalk(s, c.gaussian_sigma, 0, s.hist_head,
                    [cum_dist |-> 0, sum_x |-> 0, sum_y |-> 0,
                     sum_p |-> 0, sum_w |-> 0]).sum_w > 0

\* the adaptive cutoff one_euro_filter() computes for the sample at time ts
NextCutoff(s, c, ts) ==
    OeCutoff(c,
             OeDeriv(ToDouble(s.raw_x), s.oe_x, s.oe_dx,
                     oe_alpha(c.one_euro_dcutoff, OeDt(s, ts)), OeDt(s, ts)),
             OeDeriv(ToDouble(s.raw_y), s.oe_y, s.oe_dy,
                     oe_alpha(c.one_euro_dcutoff, OeDt(s, ts)), OeDt(s, ts)))

\* C17 (no divide-by-zero in any algorithm): whenever a sample is about to
\* be filtered, the divisors of the configured filter are non-zero: the
\* elapsed time the adaptive filter uses is strictly positive and so are
\* its two cutoffs; the string-pull distance is non-zero when the string is
\* taut; the moving average divides by a positive count; and the Gaussian
\* average divides by a positive weight sum or outputs the raw sample.
C17_NoZeroDivisor ==
    AboutToEmit =>
        /\ (g_config.algorithm = "one_euro" /\ g_state.oe_init) =>
              /\ OeDt(SampleState, Timestamp(buf[idx + 1])) > 0
              /\ Greater(g_config.one_euro_dcutoff, 0)
              /\ Greater(NextCutoff(SampleState, g_config, Timestamp(buf[idx + 1])), 0)
        /\ g_config.algorithm = "string_pull" =>
              (Greater(PullDist(SampleState), g_config.string_length) =>
                  PullDist(SampleState) # 0)
        /\ g_config.algorithm = "moving_avg" => AvgCount(SampleState, g_config) > 0
        /\ g_config.algorithm = "gaussian" => GaussDividesSafely(SampleState, g_config)

(* ---------------- claims about the 1 euro filter ---------------- *)
\* speeds the cutoff is compared at, in grid steps per millisecond
OeSpeeds == {0, 1, 10, 100, 1000, 5000, 20000}

\* the speed one_euro_filter() estimates for the sample at time ts
NextSpeed(s, c, ts) ==
    LET ndx == OeDeriv(ToDouble(s.raw_x), s.oe_x, s.oe_dx,
                       oe_alpha(c.one_euro_dcutoff, OeDt(s, ts)), OeDt(s, ts))
        ndy == OeDeriv(ToDouble(s.raw_y), s.oe_y, s.oe_dy,
                       oe_alpha(c.one_euro_dcutoff, OeDt(s, ts)), OeDt(s, ts))
    IN  IF IsNaN(ndx) \/ IsNaN(ndy) THEN NaN ELSE Hypot(ndx, ndy)

\* the speeds compared: those of OeSpeeds and the one the filter estimates
SpeedsAt(s, c, ts) == { v \in OeSpeeds \cup {NextSpeed(s, c, ts)} : ~IsNaN(v) }

\* cutoff = c.one_euro_mincutoff + c.one_euro_beta * speed at speed v
CutoffAt(c, v) == OeCutoff(c, v, 0)

\* the 1 euro filter is about to smooth a sample, with beta > 0
AboutToSmooth ==
    /\ AboutToEmit
    /\ g_config.algorithm = "one_euro" /\ g_state.oe_init
    /\ Greater(g_config.one_euro_beta, 0)

\* C21 (adaptive filter monotonicity): whenever the 1 euro filter smooths a
\* sample with beta > 0, for the configuration and the elapsed time of that
\* sample the cutoff is non-decreasing in the speed, and so is the alpha
\* applied to the position: of any two speeds the greater has a cutoff and
\* an alpha at least as great.
C21_AdaptiveMonotone ==
    AboutToSmooth =>
        \A v1, v2 \in SpeedsAt(SampleState, g_config, Timestamp(buf[idx + 1])) :
            v1 <= v2 =>
                /\ CutoffAt(g_config, v1) <= CutoffAt(g_config, v2)
                /\ oe_alpha(CutoffAt(g_config, v1), OeDt(SampleState, Timestamp(buf[idx + 1])))
                     <= oe_alpha(CutoffAt(g_config, v2), OeDt(SampleState, Timestamp(buf[idx + 1])))

\* the filter is about to smooth a moving sample at the strongest setting:
\* its estimated speed is positive and gives a greater alpha than rest does
C21_Witness ==
    /\ AboutToSmooth
    /\ g_config.strength = MILLI
    /\ NextSpeed(SampleState, g_config, Timestamp(buf[idx + 1])) > 0
    /\ oe_alpha(CutoffAt(g_config, 0), OeDt(SampleState, Timestamp(buf[idx + 1])))
         < oe_alpha(CutoffAt(g_config, NextSpeed(SampleState, g_config, Timestamp(buf[idx + 1]))),
                    OeDt(SampleState, Timestamp(buf[idx + 1])))

(* ---------------- claims about the history ---------------- *)
\* the slot j steps back from hist_head
SlotBack(s, j) == (s.hist_head - j + MAX_HISTORY) % MAX_HISTORY

\* the Euclidean distance of two pushed samples, on the grid
PushedDistance(a, b) == Hypot(ToDouble(a.x) - ToDouble(b.x), ToDouble(a.y) - ToDouble(b.y))

\* the Point history_push() stores for the n-th sample pushed since the
\* last clear
PointOf(pushed, n) ==
    [x |-> ToDouble(pushed[n].x), y |-> ToDouble(pushed[n].y),
     pressure |-> ToDouble(pushed[n].pressure),
     tilt_x |-> ToDouble(pushed[n].tilt_x), tilt_y |-> ToDouble(pushed[n].tilt_y),
     distance |-> IF n = 1 THEN 0 ELSE PushedDistance(pushed[n], pushed[n - 1])]

\* s with every slot but the hist_count newest as it was constructed
LiveOnly(s) ==
    [s EXCEPT !.history =
        [k \in { SlotBack(s, j) : j \in 0 .. s.hist_count - 1 } |-> HistAt(s, k)]]

\* the sample apply_filter() computes in state s for the sample last emitted
FilteredIn(s) ==
    apply_filter(s, g_config, ToDouble(obs.last.raw_x), ToDouble(obs.last.raw_y),
                 ToDouble(s.raw_pressure), Timestamp(obs.last.ev))

\* C24 (ring-history invariant): at every point hist_count is in 0 .. 64 and
\* hist_head in 0 .. 63; hist_count is the number of samples pushed since
\* the last clear, at most 64; the slot j steps back from hist_head holds
\* the j-th newest of them, with the distance to the sample pushed just
\* before it, 0 for the first after the clear; and the sample the moving
\* average or the Gaussian average has just computed is the one it computes
\* when every slot older than the clear is blank.
C24_RingHistory ==
    /\ g_state.hist_count \in 0 .. MAX_HISTORY
    /\ g_state.hist_head \in 0 .. MAX_HISTORY - 1
    /\ g_state.hist_count = Min(MAX_HISTORY, Len(obs.pushed))
    /\ \A j \in 0 .. g_state.hist_count - 1 :
          HistAt(g_state, SlotBack(g_state, j)) = PointOf(obs.pushed, Len(obs.pushed) - j)
    /\ (obs.last.kind = "event" /\ obs.last.emitted
          /\ g_config.algorithm \in {"moving_avg", "gaussian"}) =>
              /\ FilteredIn(LiveOnly(g_state)).x = obs.last.f.x
              /\ FilteredIn(LiveOnly(g_state)).y = obs.last.f.y
              /\ FilteredIn(LiveOnly(g_state)).p = obs.last.f.p

\* the ring has wrapped in a stroke that began after a lift: more than 64
\* samples were pushed since, over slots the stroke before had written
C24_Witness ==
    /\ obs.resets > 0
    /\ Len(obs.pushed) > MAX_HISTORY
    /\ g_state.hist_count = MAX_HISTORY
    /\ obs.last.kind = "event" /\ obs.last.emitted
    /\ g_config.algorithm = "moving_avg"

(* ---------------- claims about the string-pull step ---------------- *)
\* this step emits a sample through string_pull_filter()
PullStep ==
    /\ AboutToEmit /\ idx' = idx + 1
    /\ g_config.algorithm = "string_pull"
    /\ ~IsNaN(g_config.string_length)

\* the square of the distance from the anchor of s to the raw position of s
DistSq(s) ==
    (ToDouble(s.raw_x) - s.string_x) * (ToDouble(s.raw_x) - s.string_x)
    + (ToDouble(s.raw_y) - s.string_y) * (ToDouble(s.raw_y) - s.string_y)

\* twice the area of the triangle of the anchor of s, the anchor of t and
\* the raw position of s: 0 when the three lie on one line
Cross(s, t) ==
    (t.string_x - s.string_x) * (ToDouble(s.raw_y) - s.string_y)
    - (t.string_y - s.string_y) * (ToDouble(s.raw_x) - s.string_x)

\* the parts of the step that hold without rounding: the first sample of a
\* stroke seeds the anchor, a slack string leaves it where it is
SeedsOrRests(s, t, L) ==
    /\ t.string_init
    /\ ~s.string_init => /\ t.string_x = ToDouble(s.raw_x)
                          /\ t.string_y = ToDouble(s.raw_y)
    /\ (s.string_init /\ DistSq(s) <= L * L) =>
           /\ t.string_x = s.string_x
           /\ t.string_y = s.string_y

LoopBodyOf(r, c, i, ub) == LoopBody(r.s, c, r.events, i, ub)

\* one read() that delivers events to a freshly constructed state and has
\* processed the first n of them
RECURSIVE OneRead(_, _, _, _)
OneRead(c, events, n, ub) ==
    IF n = 0 THEN [s |-> InitState, events |-> events]
    ELSE LoopBodyOf(OneRead(c, events, n - 1, ub), c, n, ub)

\* the events of the stream processed so far
Processed == IF pc = "loop" THEN obs.used - NumEvents + idx ELSE obs.used

\* C29 (filter state is independent of batching): at every point of a run
\* that reads a stream in pieces, whatever the pieces, the assembler, the
\* history and the filter state are those of one read() that delivers the
\* whole stream and has processed as many events of it.
C29_BatchIndependent ==
    g_active => g_state = OneRead(g_config, source, Processed, 0).s

\* a whole stream has been read in pieces, the last of them beginning with
\* the SYN_REPORT of a report whose position came in the piece before
C29_Witness ==
    /\ pc = "done" /\ obs.used = Len(source) /\ source # << >>
    /\ g_state.hist_count >= 2
    /\ \E k \in 1 .. Len(source) - 1 :
          /\ NumEvents = Len(source) - k
          /\ IsSynReport(source[k + 1])
          /\ source[k].type = EV_ABS /\ source[k].code \in {ABS_X, ABS_Y}

(* ---------------- claims about the range of the output ---------------- *)
\* the least and the greatest value of the 32-bit value field
INT_MIN == -2147483647 - 1

INT_MAX == 2147483647

\* C30 (output stays inside the stroke's raw range): for every sample of a
\* stroke and each of the four algorithms the filtered x lies between the
\* least and the greatest raw x of the samples since the last reset, the
\* sample's own included, and the filtered y likewise, so that the value
\* written back fits the 32-bit value field.
C30_OutputInRange ==
    \A n \in 1 .. Len(obs.stroke) :
        /\ Within(obs.stroke[n].fx, StrokeXs(1, n))
        /\ Within(obs.stroke[n].fy, StrokeYs(1, n))
        /\ INT_MIN <= RoundToInt(obs.stroke[n].fx) /\ RoundToInt(obs.stroke[n].fx) <= INT_MAX
        /\ INT_MIN <= RoundToInt(obs.stroke[n].fy) /\ RoundToInt(obs.stroke[n].fy) <= INT_MAX

====
